---------------------------- MODULE Spec2Model ----------------------------
(***************************************************************************)
(* A model of msgp.py: the tokenizer, the string-literal extractors, the   *)
(* format-directive stripper, the scorer, process_file and the thread-pool *)
(* fan-out/fan-in of main().                                               *)
(*                                                                         *)
(* A character is its Unicode code point, a text (a Python str) a sequence *)
(* of characters, the content of a file a sequence of bytes.  Positions    *)
(* are 1-based here and 0-based in the source.  A token is a text, a token *)
(* stream a sequence of texts.  A score is an IEEE 754 double, held as the *)
(* number of its units of 2^-56 (see the section on floating point).       *)
(***************************************************************************)
EXTENDS Integers, Sequences, FiniteSets, Bags, TLC

VARIABLES
    pc,              \* position of the operation under study
    text,            \* tokenize(text): its argument
    tokens,          \* tokenize(text): its return value
    literal,         \* the literal handed to FMT_SPEC_RE.sub
    clean_literal,   \* FMT_SPEC_RE.sub('', ...) of it, after `passes` passes
    passes,          \* how many times the stripper ran
    content,         \* extract_py_string_literals(content): its argument
    literals,        \* extract_py_string_literals(content): its return value
    message,         \* args.message
    message_tokens,  \* tokenize(args.message)
    cand_tokens,     \* tokenize(clean_literal)
    score_val,       \* score_candidate(...)
    args_score,      \* args.score
    args_sort,       \* args.sort
    directory,       \* the files under args.directory, in os.walk's order
    max_workers,     \* the size of the thread pool
    file_paths,      \* main(): the paths it submits
    futures,         \* main(): one future per path
    candidates       \* main(): the collected candidates

tokenizeVars == << text, tokens >>
normalizeVars == << literal, clean_literal, passes >>
extractVars == << content, literals >>
scoreVars == << message, message_tokens, cand_tokens, score_val >>

mainVars ==
    << args_score, args_sort, directory, max_workers, file_paths, futures,
       candidates >>

vars ==
    << pc, tokenizeVars, normalizeVars, extractVars, scoreVars, mainVars >>

\* The variables of an operation that a specification does not exercise
TokenizeIdle == text = << >> /\ tokens = << >>
NormalizeIdle == literal = << >> /\ clean_literal = << >> /\ passes = 0
ExtractIdle == content = << >> /\ literals = << >>
ScoreIdle ==
    /\ message = << >>
    /\ message_tokens = << >>
    /\ cand_tokens = << >>
    /\ score_val = << >>
MainIdle ==
    /\ args_score = << >>
    /\ args_sort = FALSE
    /\ directory = << >>
    /\ max_workers = 1
    /\ file_paths = << >>
    /\ futures = << >>
    /\ candidates = << >>

-----------------------------------------------------------------------------
(* Bounds of the model *)

MaxTextLen == 4
MaxLiteralLen == 4
MaxPasses == 2
MaxBodyLen == 7
MaxMessageLen == 5
MaxCandidateLen == 4
MaxFiles == 2
MaxWorkers == 2

-----------------------------------------------------------------------------
(* Notation: the ASCII characters by the way they are written *)

\* The printable ASCII characters but '`', which a string of this notation
\* cannot hold: those of the code points 32 to 95, and those from 97 on
PRINTABLE_LOW ==
    <<" ", "!", "\"", "#", "$", "%", "&", "'", "(", ")", "*", "+", ",", "-",
      ".", "/", "0", "1", "2", "3", "4", "5", "6", "7", "8", "9", ":", ";",
      "<", "=", ">", "?", "@", "A", "B", "C", "D", "E", "F", "G", "H", "I",
      "J", "K", "L", "M", "N", "O", "P", "Q", "R", "S", "T", "U", "V", "W",
      "X", "Y", "Z", "[", "\\", "]", "^", "_">>

PRINTABLE_HIGH ==
    <<"a", "b", "c", "d", "e", "f", "g", "h", "i", "j", "k", "l", "m", "n",
      "o", "p", "q", "r", "s", "t", "u", "v", "w", "x", "y", "z", "{", "|",
      "}", "~">>

\* ord(c) of an ASCII character written as a one-character string
Ord(c) ==
    CASE c = "\t" -> 9
      [] c = "\n" -> 10
      [] c = "\f" -> 12
      [] c = "\r" -> 13
      [] \E n \in 1..Len(PRINTABLE_LOW) : PRINTABLE_LOW[n] = c ->
            31 + CHOOSE n \in 1..Len(PRINTABLE_LOW) : PRINTABLE_LOW[n] = c
      [] OTHER ->
            96 + CHOOSE n \in 1..Len(PRINTABLE_HIGH) : PRINTABLE_HIGH[n] = c

\* The text written as a sequence of one-character strings
Text(s) == [i \in 1..Len(s) |-> Ord(s[i])]

NEWLINE == Ord("\n")
CARRIAGE_RETURN == Ord("\r")
SPACE == Ord(" ")
DOUBLE_QUOTE == Ord("\"")
SINGLE_QUOTE == Ord("'")
PERCENT == Ord("%")
DOT == Ord(".")
SLASH == Ord("/")
BACKSLASH == Ord("\\")
UNDERSCORE == Ord("_")
LEFT_BRACE == Ord("{")
RIGHT_BRACE == Ord("}")

\* Characters outside ASCII that the character classes below hold:
\* '\x0b', '\xa0', U+00E9 (e with acute), U+0665 (Arabic-Indic digit five)
VERTICAL_TAB == 11
NO_BREAK_SPACE == 160
E_ACUTE == 233
ARABIC_INDIC_FIVE == 1637

-----------------------------------------------------------------------------
(* Character classes of the regular expressions.  The patterns are str     *)
(* patterns, so \s, \d and \w are the Unicode classes of the re module     *)
(* (CPython 3.11, Unicode 14.0.0); each table lists the ranges first..last *)
(* of the code points in the class, over all of U+0000 to U+10FFFF         *)

\* \s
WHITESPACE_RANGES ==
    {<<9, 13>>, <<28, 32>>, <<133, 133>>, <<160, 160>>, <<5760, 5760>>,
     <<8192, 8202>>, <<8232, 8233>>, <<8239, 8239>>, <<8287, 8287>>,
     <<12288, 12288>>}

Whitespace == UNION {r[1]..r[2] : r \in WHITESPACE_RANGES}

\* \d
DIGIT_RANGES ==
    {<<48, 57>>, <<1632, 1641>>, <<1776, 1785>>, <<1984, 1993>>,
     <<2406, 2415>>, <<2534, 2543>>, <<2662, 2671>>, <<2790, 2799>>,
     <<2918, 2927>>, <<3046, 3055>>, <<3174, 3183>>, <<3302, 3311>>,
     <<3430, 3439>>, <<3558, 3567>>, <<3664, 3673>>, <<3792, 3801>>,
     <<3872, 3881>>, <<4160, 4169>>, <<4240, 4249>>, <<6112, 6121>>,
     <<6160, 6169>>, <<6470, 6479>>, <<6608, 6617>>, <<6784, 6793>>,
     <<6800, 6809>>, <<6992, 7001>>, <<7088, 7097>>, <<7232, 7241>>,
     <<7248, 7257>>, <<42528, 42537>>, <<43216, 43225>>, <<43264, 43273>>,
     <<43472, 43481>>, <<43504, 43513>>, <<43600, 43609>>, <<44016, 44025>>,
     <<65296, 65305>>, <<66720, 66729>>, <<68912, 68921>>, <<69734, 69743>>,
     <<69872, 69881>>, <<69942, 69951>>, <<70096, 70105>>, <<70384, 70393>>,
     <<70736, 70745>>, <<70864, 70873>>, <<71248, 71257>>, <<71360, 71369>>,
     <<71472, 71481>>, <<71904, 71913>>, <<72016, 72025>>, <<72784, 72793>>,
     <<73040, 73049>>, <<73120, 73129>>, <<92768, 92777>>, <<92864, 92873>>,
     <<93008, 93017>>, <<120782, 120831>>, <<123200, 123209>>,
     <<123632, 123641>>, <<125264, 125273>>, <<130032, 130041>>}

Digits == UNION {r[1]..r[2] : r \in DIGIT_RANGES}

\* \w
WORD_RANGES ==
    {<<48, 57>>, <<65, 90>>, <<95, 95>>, <<97, 122>>, <<170, 170>>,
     <<178, 179>>, <<181, 181>>, <<185, 186>>, <<188, 190>>, <<192, 214>>,
     <<216, 246>>, <<248, 705>>, <<710, 721>>, <<736, 740>>, <<748, 748>>,
     <<750, 750>>, <<880, 884>>, <<886, 887>>, <<890, 893>>, <<895, 895>>,
     <<902, 902>>, <<904, 906>>, <<908, 908>>, <<910, 929>>, <<931, 1013>>,
     <<1015, 1153>>, <<1162, 1327>>, <<1329, 1366>>, <<1369, 1369>>,
     <<1376, 1416>>, <<1488, 1514>>, <<1519, 1522>>, <<1568, 1610>>,
     <<1632, 1641>>, <<1646, 1647>>, <<1649, 1747>>, <<1749, 1749>>,
     <<1765, 1766>>, <<1774, 1788>>, <<1791, 1791>>, <<1808, 1808>>,
     <<1810, 1839>>, <<1869, 1957>>, <<1969, 1969>>, <<1984, 2026>>,
     <<2036, 2037>>, <<2042, 2042>>, <<2048, 2069>>, <<2074, 2074>>,
     <<2084, 2084>>, <<2088, 2088>>, <<2112, 2136>>, <<2144, 2154>>,
     <<2160, 2183>>, <<2185, 2190>>, <<2208, 2249>>, <<2308, 2361>>,
     <<2365, 2365>>, <<2384, 2384>>, <<2392, 2401>>, <<2406, 2415>>,
     <<2417, 2432>>, <<2437, 2444>>, <<2447, 2448>>, <<2451, 2472>>,
     <<2474, 2480>>, <<2482, 2482>>, <<2486, 2489>>, <<2493, 2493>>,
     <<2510, 2510>>, <<2524, 2525>>, <<2527, 2529>>, <<2534, 2545>>,
     <<2548, 2553>>, <<2556, 2556>>, <<2565, 2570>>, <<2575, 2576>>,
     <<2579, 2600>>, <<2602, 2608>>, <<2610, 2611>>, <<2613, 2614>>,
     <<2616, 2617>>, <<2649, 2652>>, <<2654, 2654>>, <<2662, 2671>>,
     <<2674, 2676>>, <<2693, 2701>>, <<2703, 2705>>, <<2707, 2728>>,
     <<2730, 2736>>, <<2738, 2739>>, <<2741, 2745>>, <<2749, 2749>>,
     <<2768, 2768>>, <<2784, 2785>>, <<2790, 2799>>, <<2809, 2809>>,
     <<2821, 2828>>, <<2831, 2832>>, <<2835, 2856>>, <<2858, 2864>>,
     <<2866, 2867>>, <<2869, 2873>>, <<2877, 2877>>, <<2908, 2909>>,
     <<2911, 2913>>, <<2918, 2927>>, <<2929, 2935>>, <<2947, 2947>>,
     <<2949, 2954>>, <<2958, 2960>>, <<2962, 2965>>, <<2969, 2970>>,
     <<2972, 2972>>, <<2974, 2975>>, <<2979, 2980>>, <<2984, 2986>>,
     <<2990, 3001>>, <<3024, 3024>>, <<3046, 3058>>, <<3077, 3084>>,
     <<3086, 3088>>, <<3090, 3112>>, <<3114, 3129>>, <<3133, 3133>>,
     <<3160, 3162>>, <<3165, 3165>>, <<3168, 3169>>, <<3174, 3183>>,
     <<3192, 3198>>, <<3200, 3200>>, <<3205, 3212>>, <<3214, 3216>>,
     <<3218, 3240>>, <<3242, 3251>>, <<3253, 3257>>, <<3261, 3261>>,
     <<3293, 3294>>, <<3296, 3297>>, <<3302, 3311>>, <<3313, 3314>>,
     <<3332, 3340>>, <<3342, 3344>>, <<3346, 3386>>, <<3389, 3389>>,
     <<3406, 3406>>, <<3412, 3414>>, <<3416, 3425>>, <<3430, 3448>>,
     <<3450, 3455>>, <<3461, 3478>>, <<3482, 3505>>, <<3507, 3515>>,
     <<3517, 3517>>, <<3520, 3526>>, <<3558, 3567>>, <<3585, 3632>>,
     <<3634, 3635>>, <<3648, 3654>>, <<3664, 3673>>, <<3713, 3714>>,
     <<3716, 3716>>, <<3718, 3722>>, <<3724, 3747>>, <<3749, 3749>>,
     <<3751, 3760>>, <<3762, 3763>>, <<3773, 3773>>, <<3776, 3780>>,
     <<3782, 3782>>, <<3792, 3801>>, <<3804, 3807>>, <<3840, 3840>>,
     <<3872, 3891>>, <<3904, 3911>>, <<3913, 3948>>, <<3976, 3980>>,
     <<4096, 4138>>, <<4159, 4169>>, <<4176, 4181>>, <<4186, 4189>>,
     <<4193, 4193>>, <<4197, 4198>>, <<4206, 4208>>, <<4213, 4225>>,
     <<4238, 4238>>, <<4240, 4249>>, <<4256, 4293>>, <<4295, 4295>>,
     <<4301, 4301>>, <<4304, 4346>>, <<4348, 4680>>, <<4682, 4685>>,
     <<4688, 4694>>, <<4696, 4696>>, <<4698, 4701>>, <<4704, 4744>>,
     <<4746, 4749>>, <<4752, 4784>>, <<4786, 4789>>, <<4792, 4798>>,
     <<4800, 4800>>, <<4802, 4805>>, <<4808, 4822>>, <<4824, 4880>>,
     <<4882, 4885>>, <<4888, 4954>>, <<4969, 4988>>, <<4992, 5007>>,
     <<5024, 5109>>, <<5112, 5117>>, <<5121, 5740>>, <<5743, 5759>>,
     <<5761, 5786>>, <<5792, 5866>>, <<5870, 5880>>, <<5888, 5905>>,
     <<5919, 5937>>, <<5952, 5969>>, <<5984, 5996>>, <<5998, 6000>>,
     <<6016, 6067>>, <<6103, 6103>>, <<6108, 6108>>, <<6112, 6121>>,
     <<6128, 6137>>, <<6160, 6169>>, <<6176, 6264>>, <<6272, 6276>>,
     <<6279, 6312>>, <<6314, 6314>>, <<6320, 6389>>, <<6400, 6430>>,
     <<6470, 6509>>, <<6512, 6516>>, <<6528, 6571>>, <<6576, 6601>>,
     <<6608, 6618>>, <<6656, 6678>>, <<6688, 6740>>, <<6784, 6793>>,
     <<6800, 6809>>, <<6823, 6823>>, <<6917, 6963>>, <<6981, 6988>>,
     <<6992, 7001>>, <<7043, 7072>>, <<7086, 7141>>, <<7168, 7203>>,
     <<7232, 7241>>, <<7245, 7293>>, <<7296, 7304>>, <<7312, 7354>>,
     <<7357, 7359>>, <<7401, 7404>>, <<7406, 7411>>, <<7413, 7414>>,
     <<7418, 7418>>, <<7424, 7615>>, <<7680, 7957>>, <<7960, 7965>>,
     <<7968, 8005>>, <<8008, 8013>>, <<8016, 8023>>, <<8025, 8025>>,
     <<8027, 8027>>, <<8029, 8029>>, <<8031, 8061>>, <<8064, 8116>>,
     <<8118, 8124>>, <<8126, 8126>>, <<8130, 8132>>, <<8134, 8140>>,
     <<8144, 8147>>, <<8150, 8155>>, <<8160, 8172>>, <<8178, 8180>>,
     <<8182, 8188>>, <<8304, 8305>>, <<8308, 8313>>, <<8319, 8329>>,
     <<8336, 8348>>, <<8450, 8450>>, <<8455, 8455>>, <<8458, 8467>>,
     <<8469, 8469>>, <<8473, 8477>>, <<8484, 8484>>, <<8486, 8486>>,
     <<8488, 8488>>, <<8490, 8493>>, <<8495, 8505>>, <<8508, 8511>>,
     <<8517, 8521>>, <<8526, 8526>>, <<8528, 8585>>, <<9312, 9371>>,
     <<9450, 9471>>, <<10102, 10131>>, <<11264, 11492>>, <<11499, 11502>>,
     <<11506, 11507>>, <<11517, 11517>>, <<11520, 11557>>, <<11559, 11559>>,
     <<11565, 11565>>, <<11568, 11623>>, <<11631, 11631>>, <<11648, 11670>>,
     <<11680, 11686>>, <<11688, 11694>>, <<11696, 11702>>, <<11704, 11710>>,
     <<11712, 11718>>, <<11720, 11726>>, <<11728, 11734>>, <<11736, 11742>>,
     <<11823, 11823>>, <<12293, 12295>>, <<12321, 12329>>, <<12337, 12341>>,
     <<12344, 12348>>, <<12353, 12438>>, <<12445, 12447>>, <<12449, 12538>>,
     <<12540, 12543>>, <<12549, 12591>>, <<12593, 12686>>, <<12690, 12693>>,
     <<12704, 12735>>, <<12784, 12799>>, <<12832, 12841>>, <<12872, 12879>>,
     <<12881, 12895>>, <<12928, 12937>>, <<12977, 12991>>, <<13312, 19903>>,
     <<19968, 42124>>, <<42192, 42237>>, <<42240, 42508>>, <<42512, 42539>>,
     <<42560, 42606>>, <<42623, 42653>>, <<42656, 42735>>, <<42775, 42783>>,
     <<42786, 42888>>, <<42891, 42954>>, <<42960, 42961>>, <<42963, 42963>>,
     <<42965, 42969>>, <<42994, 43009>>, <<43011, 43013>>, <<43015, 43018>>,
     <<43020, 43042>>, <<43056, 43061>>, <<43072, 43123>>, <<43138, 43187>>,
     <<43216, 43225>>, <<43250, 43255>>, <<43259, 43259>>, <<43261, 43262>>,
     <<43264, 43301>>, <<43312, 43334>>, <<43360, 43388>>, <<43396, 43442>>,
     <<43471, 43481>>, <<43488, 43492>>, <<43494, 43518>>, <<43520, 43560>>,
     <<43584, 43586>>, <<43588, 43595>>, <<43600, 43609>>, <<43616, 43638>>,
     <<43642, 43642>>, <<43646, 43695>>, <<43697, 43697>>, <<43701, 43702>>,
     <<43705, 43709>>, <<43712, 43712>>, <<43714, 43714>>, <<43739, 43741>>,
     <<43744, 43754>>, <<43762, 43764>>, <<43777, 43782>>, <<43785, 43790>>,
     <<43793, 43798>>, <<43808, 43814>>, <<43816, 43822>>, <<43824, 43866>>,
     <<43868, 43881>>, <<43888, 44002>>, <<44016, 44025>>, <<44032, 55203>>,
     <<55216, 55238>>, <<55243, 55291>>, <<63744, 64109>>, <<64112, 64217>>,
     <<64256, 64262>>, <<64275, 64279>>, <<64285, 64285>>, <<64287, 64296>>,
     <<64298, 64310>>, <<64312, 64316>>, <<64318, 64318>>, <<64320, 64321>>,
     <<64323, 64324>>, <<64326, 64433>>, <<64467, 64829>>, <<64848, 64911>>,
     <<64914, 64967>>, <<65008, 65019>>, <<65136, 65140>>, <<65142, 65276>>,
     <<65296, 65305>>, <<65313, 65338>>, <<65345, 65370>>, <<65382, 65470>>,
     <<65474, 65479>>, <<65482, 65487>>, <<65490, 65495>>, <<65498, 65500>>,
     <<65536, 65547>>, <<65549, 65574>>, <<65576, 65594>>, <<65596, 65597>>,
     <<65599, 65613>>, <<65616, 65629>>, <<65664, 65786>>, <<65799, 65843>>,
     <<65856, 65912>>, <<65930, 65931>>, <<66176, 66204>>, <<66208, 66256>>,
     <<66273, 66299>>, <<66304, 66339>>, <<66349, 66378>>, <<66384, 66421>>,
     <<66432, 66461>>, <<66464, 66499>>, <<66504, 66511>>, <<66513, 66517>>,
     <<66560, 66717>>, <<66720, 66729>>, <<66736, 66771>>, <<66776, 66811>>,
     <<66816, 66855>>, <<66864, 66915>>, <<66928, 66938>>, <<66940, 66954>>,
     <<66956, 66962>>, <<66964, 66965>>, <<66967, 66977>>, <<66979, 66993>>,
     <<66995, 67001>>, <<67003, 67004>>, <<67072, 67382>>, <<67392, 67413>>,
     <<67424, 67431>>, <<67456, 67461>>, <<67463, 67504>>, <<67506, 67514>>,
     <<67584, 67589>>, <<67592, 67592>>, <<67594, 67637>>, <<67639, 67640>>,
     <<67644, 67644>>, <<67647, 67669>>, <<67672, 67702>>, <<67705, 67742>>,
     <<67751, 67759>>, <<67808, 67826>>, <<67828, 67829>>, <<67835, 67867>>,
     <<67872, 67897>>, <<67968, 68023>>, <<68028, 68047>>, <<68050, 68096>>,
     <<68112, 68115>>, <<68117, 68119>>, <<68121, 68149>>, <<68160, 68168>>,
     <<68192, 68222>>, <<68224, 68255>>, <<68288, 68295>>, <<68297, 68324>>,
     <<68331, 68335>>, <<68352, 68405>>, <<68416, 68437>>, <<68440, 68466>>,
     <<68472, 68497>>, <<68521, 68527>>, <<68608, 68680>>, <<68736, 68786>>,
     <<68800, 68850>>, <<68858, 68899>>, <<68912, 68921>>, <<69216, 69246>>,
     <<69248, 69289>>, <<69296, 69297>>, <<69376, 69415>>, <<69424, 69445>>,
     <<69457, 69460>>, <<69488, 69505>>, <<69552, 69579>>, <<69600, 69622>>,
     <<69635, 69687>>, <<69714, 69743>>, <<69745, 69746>>, <<69749, 69749>>,
     <<69763, 69807>>, <<69840, 69864>>, <<69872, 69881>>, <<69891, 69926>>,
     <<69942, 69951>>, <<69956, 69956>>, <<69959, 69959>>, <<69968, 70002>>,
     <<70006, 70006>>, <<70019, 70066>>, <<70081, 70084>>, <<70096, 70106>>,
     <<70108, 70108>>, <<70113, 70132>>, <<70144, 70161>>, <<70163, 70187>>,
     <<70272, 70278>>, <<70280, 70280>>, <<70282, 70285>>, <<70287, 70301>>,
     <<70303, 70312>>, <<70320, 70366>>, <<70384, 70393>>, <<70405, 70412>>,
     <<70415, 70416>>, <<70419, 70440>>, <<70442, 70448>>, <<70450, 70451>>,
     <<70453, 70457>>, <<70461, 70461>>, <<70480, 70480>>, <<70493, 70497>>,
     <<70656, 70708>>, <<70727, 70730>>, <<70736, 70745>>, <<70751, 70753>>,
     <<70784, 70831>>, <<70852, 70853>>, <<70855, 70855>>, <<70864, 70873>>,
     <<71040, 71086>>, <<71128, 71131>>, <<71168, 71215>>, <<71236, 71236>>,
     <<71248, 71257>>, <<71296, 71338>>, <<71352, 71352>>, <<71360, 71369>>,
     <<71424, 71450>>, <<71472, 71483>>, <<71488, 71494>>, <<71680, 71723>>,
     <<71840, 71922>>, <<71935, 71942>>, <<71945, 71945>>, <<71948, 71955>>,
     <<71957, 71958>>, <<71960, 71983>>, <<71999, 71999>>, <<72001, 72001>>,
     <<72016, 72025>>, <<72096, 72103>>, <<72106, 72144>>, <<72161, 72161>>,
     <<72163, 72163>>, <<72192, 72192>>, <<72203, 72242>>, <<72250, 72250>>,
     <<72272, 72272>>, <<72284, 72329>>, <<72349, 72349>>, <<72368, 72440>>,
     <<72704, 72712>>, <<72714, 72750>>, <<72768, 72768>>, <<72784, 72812>>,
     <<72818, 72847>>, <<72960, 72966>>, <<72968, 72969>>, <<72971, 73008>>,
     <<73030, 73030>>, <<73040, 73049>>, <<73056, 73061>>, <<73063, 73064>>,
     <<73066, 73097>>, <<73112, 73112>>, <<73120, 73129>>, <<73440, 73458>>,
     <<73648, 73648>>, <<73664, 73684>>, <<73728, 74649>>, <<74752, 74862>>,
     <<74880, 75075>>, <<77712, 77808>>, <<77824, 78894>>, <<82944, 83526>>,
     <<92160, 92728>>, <<92736, 92766>>, <<92768, 92777>>, <<92784, 92862>>,
     <<92864, 92873>>, <<92880, 92909>>, <<92928, 92975>>, <<92992, 92995>>,
     <<93008, 93017>>, <<93019, 93025>>, <<93027, 93047>>, <<93053, 93071>>,
     <<93760, 93846>>, <<93952, 94026>>, <<94032, 94032>>, <<94099, 94111>>,
     <<94176, 94177>>, <<94179, 94179>>, <<94208, 100343>>,
     <<100352, 101589>>, <<101632, 101640>>, <<110576, 110579>>,
     <<110581, 110587>>, <<110589, 110590>>, <<110592, 110882>>,
     <<110928, 110930>>, <<110948, 110951>>, <<110960, 111355>>,
     <<113664, 113770>>, <<113776, 113788>>, <<113792, 113800>>,
     <<113808, 113817>>, <<119520, 119539>>, <<119648, 119672>>,
     <<119808, 119892>>, <<119894, 119964>>, <<119966, 119967>>,
     <<119970, 119970>>, <<119973, 119974>>, <<119977, 119980>>,
     <<119982, 119993>>, <<119995, 119995>>, <<119997, 120003>>,
     <<120005, 120069>>, <<120071, 120074>>, <<120077, 120084>>,
     <<120086, 120092>>, <<120094, 120121>>, <<120123, 120126>>,
     <<120128, 120132>>, <<120134, 120134>>, <<120138, 120144>>,
     <<120146, 120485>>, <<120488, 120512>>, <<120514, 120538>>,
     <<120540, 120570>>, <<120572, 120596>>, <<120598, 120628>>,
     <<120630, 120654>>, <<120656, 120686>>, <<120688, 120712>>,
     <<120714, 120744>>, <<120746, 120770>>, <<120772, 120779>>,
     <<120782, 120831>>, <<122624, 122654>>, <<123136, 123180>>,
     <<123191, 123197>>, <<123200, 123209>>, <<123214, 123214>>,
     <<123536, 123565>>, <<123584, 123627>>, <<123632, 123641>>,
     <<124896, 124902>>, <<124904, 124907>>, <<124909, 124910>>,
     <<124912, 124926>>, <<124928, 125124>>, <<125127, 125135>>,
     <<125184, 125251>>, <<125259, 125259>>, <<125264, 125273>>,
     <<126065, 126123>>, <<126125, 126127>>, <<126129, 126132>>,
     <<126209, 126253>>, <<126255, 126269>>, <<126464, 126467>>,
     <<126469, 126495>>, <<126497, 126498>>, <<126500, 126500>>,
     <<126503, 126503>>, <<126505, 126514>>, <<126516, 126519>>,
     <<126521, 126521>>, <<126523, 126523>>, <<126530, 126530>>,
     <<126535, 126535>>, <<126537, 126537>>, <<126539, 126539>>,
     <<126541, 126543>>, <<126545, 126546>>, <<126548, 126548>>,
     <<126551, 126551>>, <<126553, 126553>>, <<126555, 126555>>,
     <<126557, 126557>>, <<126559, 126559>>, <<126561, 126562>>,
     <<126564, 126564>>, <<126567, 126570>>, <<126572, 126578>>,
     <<126580, 126583>>, <<126585, 126588>>, <<126590, 126590>>,
     <<126592, 126601>>, <<126603, 126619>>, <<126625, 126627>>,
     <<126629, 126633>>, <<126635, 126651>>, <<127232, 127244>>,
     <<130032, 130041>>, <<131072, 173791>>, <<173824, 177976>>,
     <<177984, 178205>>, <<178208, 183969>>, <<183984, 191456>>,
     <<194560, 195101>>, <<196608, 201546>>}

Word == UNION {r[1]..r[2] : r \in WORD_RANGES}

\* [\w.]
WordDot == Word \cup {DOT}

\* [-+0# ]
FmtFlags == {Ord("-"), Ord("+"), Ord("0"), Ord("#"), SPACE}

\* [dsf]
FmtConversions == {Ord("d"), Ord("s"), Ord("f")}

\* All texts over an alphabet, up to a length
TextsUpTo(alphabet, n) == UNION {[1..k -> alphabet] : k \in 0..n}

RECURSIVE Concat(_)
Concat(seqs) ==
    IF seqs = << >> THEN << >> ELSE Head(seqs) \o Concat(Tail(seqs))

\* The first position >= i of text holding a character outside S
\* (Len(text) + 1 when the run reaches the end): the end of S* at i
RECURSIVE RunEnd(_, _, _)
RunEnd(S, t, i) ==
    IF i <= Len(t) /\ t[i] \in S THEN RunEnd(S, t, i + 1) ELSE i

-----------------------------------------------------------------------------
(* TOKENIZE_RE = \s+|[\w.]+|[^\s\w.]  and  tokenize *)

\* A tokenizer that forgets the whitespace alternative: [\w.]+|[^\s\w.]
TokenizeMatchEndNoSpace(t, i) ==
    IF t[i] \in WordDot THEN RunEnd(WordDot, t, i)
    ELSE IF t[i] \notin (Whitespace \cup WordDot) THEN i + 1
    ELSE i

\* Where a match of TOKENIZE_RE that starts at i ends (exclusive); i itself
\* when nothing matches there.  The alternatives are tried in order.
TokenizeMatchEnd(t, i) ==
    IF t[i] \in Whitespace THEN RunEnd(Whitespace, t, i)
    ELSE IF t[i] \in WordDot THEN RunEnd(WordDot, t, i)
    ELSE IF t[i] \notin Whitespace /\ t[i] \notin WordDot THEN i + 1
    ELSE i

\* re.findall from position i: the matches in order, unmatched characters
\* skipped
RECURSIVE FindallFrom(_, _)
FindallFrom(t, i) ==
    IF i > Len(t) THEN << >>
    ELSE LET e == TokenizeMatchEnd(t, i)
         IN  IF e = i THEN FindallFrom(t, i + 1)
             ELSE << SubSeq(t, i, e - 1) >> \o FindallFrom(t, e)

tokenize(t) == FindallFrom(t, 1)

-----------------------------------------------------------------------------
(* FMT_SPEC_RE = %[-+0# ]*\d*(?:\.\d+)?[dsf] *)

\* Where a match of FMT_SPEC_RE that starts at i ends (exclusive); i itself
\* when nothing matches there.  The conversion letter is in none of the other
\* classes, so the greedy reading is the only one.
FmtMatchEnd(t, i) ==
    IF t[i] # PERCENT THEN i
    ELSE LET j == RunEnd(FmtFlags, t, i + 1)
             k == RunEnd(Digits, t, j)
             m == IF k + 1 <= Len(t) /\ t[k] = DOT /\ t[k + 1] \in Digits
                  THEN RunEnd(Digits, t, k + 1)
                  ELSE k
         IN  IF m <= Len(t) /\ t[m] \in FmtConversions THEN m + 1 ELSE i

\* A stripper that removes the first directive only, as sub(..., count=1)
RECURSIVE FmtSubFromFirstOnly(_, _)
FmtSubFromFirstOnly(t, i) ==
    IF i > Len(t) THEN << >>
    ELSE LET e == FmtMatchEnd(t, i)
         IN  IF e = i THEN << t[i] >> \o FmtSubFromFirstOnly(t, i + 1)
             ELSE SubSeq(t, e, Len(t))

\* FMT_SPEC_RE.sub('', t) from position i: one left-to-right pass over
\* non-overlapping matches
RECURSIVE FmtSubFrom(_, _)
FmtSubFrom(t, i) ==
    IF i > Len(t) THEN << >>
    ELSE LET e == FmtMatchEnd(t, i)
         IN  IF e = i THEN << t[i] >> \o FmtSubFrom(t, i + 1)
             ELSE FmtSubFrom(t, e)

FMT_SPEC_RE_sub(t) == FmtSubFrom(t, 1)

\* FMT_SPEC_RE.fullmatch(token)
FMT_SPEC_RE_fullmatch(t) ==
    Len(t) > 0 /\ FmtMatchEnd(t, 1) = Len(t) + 1

\* Whether t holds a substring FMT_SPEC_RE matches
HasDirective(t) == \E i \in 1..Len(t) : FmtMatchEnd(t, i) # i

-----------------------------------------------------------------------------
(* The string-literal regular expressions and the three extractors *)

\* Where the body (?:\\.|[^q\\])* and the closing quote q end (exclusive),
\* the body starting at j; 0 when the literal is not closed.  A backslash
\* takes the next character with it, unless that is a newline ('.' does not
\* match one); every other character but q is taken alone.
RECURSIVE QuotedBodyEnd(_, _, _)
QuotedBodyEnd(t, j, q) ==
    IF j > Len(t) THEN 0
    ELSE IF t[j] = q THEN j + 1
    ELSE IF t[j] = BACKSLASH
         THEN IF j + 1 <= Len(t) /\ t[j + 1] # NEWLINE
              THEN QuotedBodyEnd(t, j + 2, q)
              ELSE 0
    ELSE QuotedBodyEnd(t, j + 1, q)

\* "(?:\\.|[^"\\])*" at i
C_STRING_LITERAL_RE(t, i) ==
    IF i <= Len(t) /\ t[i] = DOUBLE_QUOTE
    THEN QuotedBodyEnd(t, i + 1, DOUBLE_QUOTE)
    ELSE 0

\* "(?:\\.|[^"\\])*"|'(?:\\.|[^'\\])*' at i
JS_STRING_LITERAL_RE(t, i) ==
    IF i <= Len(t) /\ t[i] \in {DOUBLE_QUOTE, SINGLE_QUOTE}
    THEN QuotedBodyEnd(t, i + 1, t[i])
    ELSE 0

\* Whether character c matches the pattern letter under re.IGNORECASE.  Of
\* all code points only the letter and its ASCII capital match r, u or f.
MatchesIgnoreCase(c, letter) == c = letter \/ c = letter - 32

\* r|u|ur|ru|f|fr|rf, in the order the pattern lists them
STRING_PREFIXES ==
    << Text(<<"r">>), Text(<<"u">>), Text(<<"u", "r">>), Text(<<"r", "u">>),
       Text(<<"f">>), Text(<<"f", "r">>), Text(<<"r", "f">>) >>

\* f|fr|rf
F_STRING_PREFIXES == << Text(<<"f">>), Text(<<"f", "r">>), Text(<<"r", "f">>) >>

\* Whether the letters p stand at position i of t, in either case
PrefixAt(t, i, p) ==
    /\ i + Len(p) - 1 <= Len(t)
    /\ \A k \in 1..Len(p) : MatchesIgnoreCase(t[i + k - 1], p[k])

\* PY_STRING_LITERAL_RE at i: the prefix alternatives from the n-th on, each
\* followed by a quoted literal, then the literal with no prefix
RECURSIVE PyMatchEndFrom(_, _, _)
PyMatchEndFrom(t, i, n) ==
    IF n > Len(STRING_PREFIXES) THEN JS_STRING_LITERAL_RE(t, i)
    ELSE LET p == STRING_PREFIXES[n]
             e == IF PrefixAt(t, i, p)
                  THEN JS_STRING_LITERAL_RE(t, i + Len(p))
                  ELSE 0
         IN  IF e # 0 THEN e ELSE PyMatchEndFrom(t, i, n + 1)

PY_STRING_LITERAL_RE(t, i) == PyMatchEndFrom(t, i, 1)

\* The end of the match of pattern re at i (exclusive), 0 when there is none
LiteralMatchEnd(re, t, i) ==
    CASE re = "C" -> C_STRING_LITERAL_RE(t, i)
      [] re = "PY" -> PY_STRING_LITERAL_RE(t, i)
      [] re = "JS" -> JS_STRING_LITERAL_RE(t, i)

\* The places of t where the pattern matches
MatchStarts(re, t) == {j \in 1..Len(t) : LiteralMatchEnd(re, t, j) # 0}

\* re.finditer from position i: the non-overlapping matches, left to right.
\* The scan goes on at the leftmost place >= i where the pattern matches
\* (starts holds the places where it does).
RECURSIVE FinditerFrom(_, _, _, _)
FinditerFrom(re, t, starts, i) ==
    LET left == {j \in starts : j >= i}
    IN  IF left = {} THEN << >>
        ELSE LET j == CHOOSE j \in left : \A k \in left : j <= k
                 e == LiteralMatchEnd(re, t, j)
             IN  << [start |-> j, end |-> e] >> \o FinditerFrom(re, t, starts, e)

Finditer(re, t) == FinditerFrom(re, t, MatchStarts(re, t), 1)

\* content.count('\n', 0, n)
CountNewlines(t, n) == Cardinality({k \in 1..n : t[k] = NEWLINE})

\* The line counted from 0: the + 1 forgotten
LineOfZeroBased(t, m) == CountNewlines(t, m.start - 1)

LineOf(t, m) == CountNewlines(t, m.start - 1) + 1

\* m.group(0)
Group0(t, m) == SubSeq(t, m.start, m.end - 1)

\* s[1:-1]
StripEnds(s) == SubSeq(s, 2, Len(s) - 1)

\* (s.startswith('"') and s.endswith('"')) or
\* (s.startswith("'") and s.endswith("'"))
IsQuoted(s) ==
    /\ Len(s) >= 1
    /\ \/ s[1] = DOUBLE_QUOTE /\ s[Len(s)] = DOUBLE_QUOTE
       \/ s[1] = SINGLE_QUOTE /\ s[Len(s)] = SINGLE_QUOTE

\* bool(F_STRING_PREFIX_RE.match(raw_literal))
F_STRING_PREFIX_RE_match(raw) ==
    \E n \in 1..Len(F_STRING_PREFIXES) : PrefixAt(raw, 1, F_STRING_PREFIXES[n])

\* STRING_PREFIX_RE.sub('', raw_literal): the first alternative that matches
\* at the start is removed (there is nothing after it to make the regex try
\* a later, longer one)
RECURSIVE StripPrefixFrom(_, _)
StripPrefixFrom(raw, n) ==
    IF n > Len(STRING_PREFIXES) THEN raw
    ELSE IF PrefixAt(raw, 1, STRING_PREFIXES[n])
         THEN SubSeq(raw, Len(STRING_PREFIXES[n]) + 1, Len(raw))
         ELSE StripPrefixFrom(raw, n + 1)

STRING_PREFIX_RE_sub(raw) == StripPrefixFrom(raw, 1)

\* \{.*?\} at i, the lazy .*? from j on: the nearest '}' with no newline before
\* it; 0 when there is none
RECURSIVE LazyBraceEnd(_, _)
LazyBraceEnd(t, j) ==
    IF j > Len(t) THEN 0
    ELSE IF t[j] = RIGHT_BRACE THEN j + 1
    ELSE IF t[j] = NEWLINE THEN 0
    ELSE LazyBraceEnd(t, j + 1)

BraceMatchEnd(t, i) == IF t[i] = LEFT_BRACE THEN LazyBraceEnd(t, i + 1) ELSE 0

\* re.split(r'\{.*?\}', t) from position i, cur the part read so far
RECURSIVE SplitBracesFrom(_, _, _)
SplitBracesFrom(t, i, cur) ==
    IF i > Len(t) THEN << cur >>
    ELSE LET e == BraceMatchEnd(t, i)
         IN  IF e = 0 THEN SplitBracesFrom(t, i + 1, Append(cur, t[i]))
             ELSE << cur >> \o SplitBracesFrom(t, e, << >>)

\* ' '.join(parts)
RECURSIVE JoinSpace(_)
JoinSpace(parts) ==
    IF Len(parts) = 0 THEN << >>
    ELSE IF Len(parts) = 1 THEN parts[1]
    ELSE parts[1] \o << SPACE >> \o JoinSpace(Tail(parts))

\* The literal extract_py_string_literals emits for the match raw_literal
PyLiteral(raw_literal) ==
    LET is_f_string == F_STRING_PREFIX_RE_match(raw_literal)
        stripped == STRING_PREFIX_RE_sub(raw_literal)
        unquoted == IF IsQuoted(stripped) THEN StripEnds(stripped) ELSE stripped
    IN  IF is_f_string
        THEN JoinSpace(SplitBracesFrom(unquoted, 1, << >>))
        ELSE unquoted

\* The literal extract_js_string_literals emits for the match s
JsLiteral(s) == IF IsQuoted(s) THEN StripEnds(s) ELSE s

\* The matches of a pattern, each turned into a (line, literal) pair
LiteralsOf(re, t) ==
    LET ms == Finditer(re, t)
    IN  [n \in 1..Len(ms) |->
            [line |-> LineOf(t, ms[n]),
             literal |-> CASE re = "C" -> StripEnds(Group0(t, ms[n]))
                           [] re = "PY" -> PyLiteral(Group0(t, ms[n]))
                           [] re = "JS" -> JsLiteral(Group0(t, ms[n]))]]

extract_c_string_literals(t) == LiteralsOf("C", t)

extract_py_string_literals(t) == LiteralsOf("PY", t)

extract_js_string_literals(t) == LiteralsOf("JS", t)

-----------------------------------------------------------------------------
(* Floating point.  score_candidate adds len(token) and len(token) * 0.1   *)
(* into a float.  Every value it can hold is 0 or a double of at least 0.1,*)
(* hence a whole number of units of 2^-56.  A float is held as that number *)
(* written in base 2^14, least significant digit first and without         *)
(* leading zeros: 0 is << >>, 1.0 is <<0, 0, 0, 0, 1>>, the double 0.1 is  *)
(* <<6554, 9830, 6553, 1638>>.  The digits from the fifth on are the       *)
(* integer part.  An operation is the exact one followed by the rounding   *)
(* of IEEE 754, to 53 significant bits, ties to even.                      *)

RADIX_BITS == 14
RADIX == 2 ^ RADIX_BITS
FRACTION_DIGITS == 4
MANTISSA_BITS == 53

\* The number without the zeros at its most significant end
RECURSIVE Normalize(_)
Normalize(x) ==
    IF x # << >> /\ x[Len(x)] = 0 THEN Normalize(SubSeq(x, 1, Len(x) - 1))
    ELSE x

\* The digits of the natural number n
RECURSIVE DigitsOf(_)
DigitsOf(n) ==
    IF n = 0 THEN << >> ELSE << n % RADIX >> \o DigitsOf(n \div RADIX)

\* The exact sum of x and y from digit i on, c the carry
RECURSIVE AddFrom(_, _, _, _)
AddFrom(x, y, i, c) ==
    IF i > Len(x) /\ i > Len(y) THEN DigitsOf(c)
    ELSE LET s == (IF i <= Len(x) THEN x[i] ELSE 0)
                    + (IF i <= Len(y) THEN y[i] ELSE 0) + c
         IN  << s % RADIX >> \o AddFrom(x, y, i + 1, s \div RADIX)

\* The exact product of x and the natural number n from digit i on
RECURSIVE TimesFrom(_, _, _, _)
TimesFrom(x, n, i, c) ==
    IF i > Len(x) THEN DigitsOf(c)
    ELSE LET s == x[i] * n + c
         IN  << s % RADIX >> \o TimesFrom(x, n, i + 1, s \div RADIX)

\* The number of bits of the natural number n
RECURSIVE BitsOf(_)
BitsOf(n) == IF n = 0 THEN 0 ELSE 1 + BitsOf(n \div 2)

BitLength(x) ==
    IF x = << >> THEN 0
    ELSE RADIX_BITS * (Len(x) - 1) + BitsOf(x[Len(x)])

\* Bit b of x, bit 0 the least significant
Bit(x, b) ==
    LET k == b \div RADIX_BITS + 1
    IN  IF k > Len(x) THEN 0 ELSE (x[k] \div (2 ^ (b % RADIX_BITS))) % 2

\* x with its s least significant bits set to 0
ClearLow(x, s) ==
    [k \in 1..Len(x) |->
        IF RADIX_BITS * k <= s THEN 0
        ELSE IF RADIX_BITS * (k - 1) >= s THEN x[k]
        ELSE x[k] - (x[k] % (2 ^ (s - RADIX_BITS * (k - 1))))]

\* 2^s
PowerOfTwo(s) ==
    [k \in 1..(s \div RADIX_BITS + 1) |->
        IF k = s \div RADIX_BITS + 1 THEN 2 ^ (s % RADIX_BITS) ELSE 0]

\* The double nearest to the exact value x: the bits below the 53 most
\* significant ones are dropped, and one unit of the last kept place is
\* added when they were more than half of it, or half and the kept part odd
RoundToDouble(x) ==
    LET s == BitLength(x) - MANTISSA_BITS
    IN  IF s <= 0 THEN x
        ELSE LET half == Bit(x, s - 1) = 1
                 sticky == \E b \in 0..(s - 2) : Bit(x, b) = 1
                 odd == Bit(x, s) = 1
             IN  IF half /\ (sticky \/ odd)
                 THEN Normalize(AddFrom(ClearLow(x, s), PowerOfTwo(s), 1, 0))
                 ELSE ClearLow(x, s)

\* float(n) of a natural number n
FloatOfInt(n) ==
    IF n = 0 THEN << >> ELSE [k \in 1..FRACTION_DIGITS |-> 0] \o DigitsOf(n)

\* The double 0.1 = 0x1999999999999A * 2^-56
TENTH == <<6554, 9830, 6553, 1638>>

\* a + b of two floats
FloatAdd(a, b) == RoundToDouble(Normalize(AddFrom(a, b, 1, 0)))

\* n * 0.1 of a natural number n
TimesTenth(n) == RoundToDouble(Normalize(TimesFrom(TENTH, n, 1, 0)))

\* a > b of two floats, decided at the most significant digit they differ in
FloatGreater(a, b) ==
    \/ Len(a) > Len(b)
    \/ /\ Len(a) = Len(b)
       /\ \E k \in 1..Len(a) :
             /\ a[k] > b[k]
             /\ \A j \in (k + 1)..Len(a) : a[j] = b[j]

\* a >= b of two floats
FloatGeq(a, b) == a = b \/ FloatGreater(a, b)

-----------------------------------------------------------------------------
(* score_candidate *)

\* ALPHANUMERIC_RE.fullmatch(token), ALPHANUMERIC_RE = [\w.]+
ALPHANUMERIC_RE_fullmatch(tok) ==
    Len(tok) >= 1 /\ \A i \in 1..Len(tok) : tok[i] \in WordDot

\* SINGLE_PERCENT_S_RE.fullmatch(token), SINGLE_PERCENT_S_RE = %[s]
SINGLE_PERCENT_S_RE_fullmatch(tok) == tok = << PERCENT, Ord("s") >>

\* set(message_tokens)
SetOf(seq) == {seq[i] : i \in 1..Len(seq)}

\* The place found when every search starts at the head of the list:
\* message_tokens.index(token)
IndexFromHead(msg_tokens, tok, start) ==
    IF \E p \in 1..Len(msg_tokens) : msg_tokens[p] = tok
    THEN CHOOSE p \in 1..Len(msg_tokens) :
            /\ msg_tokens[p] = tok
            /\ \A r \in 1..(p - 1) : msg_tokens[r] # tok
    ELSE 0

\* message_tokens.index(token, start): the first place >= start that holds
\* the token; 0 stands for ValueError
RECURSIVE Index(_, _, _)
Index(msg_tokens, tok, start) ==
    IF start > Len(msg_tokens) THEN 0
    ELSE IF msg_tokens[start] = tok THEN start
    ELSE Index(msg_tokens, tok, start + 1)

\* The loop of lines 96 to 104 from the k-th filtered token on: whether it
\* runs to its end without a return 0
RECURSIVE OrderedFrom(_, _, _, _)
OrderedFrom(msg_tokens, filtered, k, prev_index) ==
    IF k > Len(filtered) THEN TRUE
    ELSE LET current_index == Index(msg_tokens, filtered[k], prev_index + 1)
         IN  IF current_index = 0 THEN FALSE
             ELSE IF current_index <= prev_index THEN FALSE
             ELSE OrderedFrom(msg_tokens, filtered, k + 1, current_index)

\* A weighting that gives every token a full point per character
TokenScoreAllFull(tok) == FloatOfInt(Len(tok))

\* What one token adds to the score: len(token), or len(token) * 0.1
TokenScore(tok) ==
    IF ALPHANUMERIC_RE_fullmatch(tok) THEN FloatOfInt(Len(tok))
    ELSE TimesTenth(Len(tok))

\* The loop of lines 106 to 110 from the k-th filtered token on, score the
\* sum so far
RECURSIVE SumScores(_, _, _)
SumScores(filtered, k, score) ==
    IF k > Len(filtered) THEN score
    ELSE SumScores(filtered, k + 1, FloatAdd(score, TokenScore(filtered[k])))

FilterTokens(msg_tokens_set, candidate_tokens) ==
    SelectSeq(candidate_tokens,
              LAMBDA tok : tok \in msg_tokens_set /\ ~FMT_SPEC_RE_fullmatch(tok))

score_candidate(msg_tokens, msg_tokens_set, candidate_tokens) ==
    LET filtered == FilterTokens(msg_tokens_set, candidate_tokens)
    IN  IF filtered = << >> THEN FloatOfInt(0)
        ELSE IF ~OrderedFrom(msg_tokens, filtered, 1, 0) THEN FloatOfInt(0)
        ELSE SumScores(filtered, 1, FloatOfInt(0))

-----------------------------------------------------------------------------
(* process_file and the steps of main() *)

\* The number of bytes of the UTF-8 sequence a byte begins, 0 for a byte
\* that begins none
SequenceLength(lead) ==
    IF lead < 128 THEN 1
    ELSE IF lead \in 194..223 THEN 2
    ELSE IF lead \in 224..239 THEN 3
    ELSE IF lead \in 240..244 THEN 4
    ELSE 0

\* Whether byte c is a continuation byte
IsContinuation(c) == c \in 128..191

\* Whether byte c can follow the lead byte: a continuation byte that makes
\* no overlong form, no surrogate and no code point above U+10FFFF
SecondByteOk(lead, c) ==
    /\ IsContinuation(c)
    /\ ~(lead = 224 /\ c < 160)
    /\ ~(lead = 237 /\ c >= 160)
    /\ ~(lead = 240 /\ c < 144)
    /\ ~(lead = 244 /\ c >= 144)

\* The first position >= i of t that holds an element of S, Len(t) + 1 when
\* none does
NextIn(S, t, i) ==
    LET hits == {j \in i..Len(t) : t[j] \in S}
    IN  IF hits = {} THEN Len(t) + 1
        ELSE CHOOSE j \in hits : \A k \in hits : j <= k

\* bytes.decode('utf-8', errors='ignore') from byte i on: the ASCII bytes up
\* to the next other byte stand for themselves; a byte that begins no
\* sequence is dropped, a sequence broken by its k-th byte loses the k - 1
\* bytes before that one, and a sequence cut by the end of the data is dropped
RECURSIVE DecodeFrom(_, _)
DecodeFrom(b, i) ==
    IF i > Len(b) THEN << >>
    ELSE LET lead == b[i]
             n == SequenceLength(lead)
             ascii == NextIn(128..255, b, i)
         IN  IF n = 1 THEN SubSeq(b, i, ascii - 1) \o DecodeFrom(b, ascii)
             ELSE IF n = 0 THEN DecodeFrom(b, i + 1)
             ELSE IF i + 1 > Len(b) THEN << >>
             ELSE IF ~SecondByteOk(lead, b[i + 1]) THEN DecodeFrom(b, i + 1)
             ELSE IF n = 2
                  THEN << (lead - 192) * 64 + (b[i + 1] - 128) >>
                         \o DecodeFrom(b, i + 2)
             ELSE IF i + 2 > Len(b) THEN << >>
             ELSE IF ~IsContinuation(b[i + 2]) THEN DecodeFrom(b, i + 2)
             ELSE IF n = 3
                  THEN << (lead - 224) * 4096 + (b[i + 1] - 128) * 64
                            + (b[i + 2] - 128) >>
                         \o DecodeFrom(b, i + 3)
             ELSE IF i + 3 > Len(b) THEN << >>
             ELSE IF ~IsContinuation(b[i + 3]) THEN DecodeFrom(b, i + 3)
             ELSE << (lead - 240) * 262144 + (b[i + 1] - 128) * 4096
                       + (b[i + 2] - 128) * 64 + (b[i + 3] - 128) >>
                    \o DecodeFrom(b, i + 4)

\* The newline translation of a file opened in text mode with newline=None,
\* from character i on: the characters up to the next '\r' are kept, and
\* '\r\n' and '\r' are read as '\n'
RECURSIVE TranslateNewlinesFrom(_, _)
TranslateNewlinesFrom(t, i) ==
    IF i > Len(t) THEN << >>
    ELSE LET cr == NextIn({CARRIAGE_RETURN}, t, i)
         IN  IF cr > Len(t) THEN SubSeq(t, i, Len(t))
             ELSE SubSeq(t, i, cr - 1) \o << NEWLINE >>
                    \o TranslateNewlinesFrom(t,
                          IF cr + 1 <= Len(t) /\ t[cr + 1] = NEWLINE
                          THEN cr + 2 ELSE cr + 1)

\* open(filepath, 'r', encoding='utf-8', errors='ignore').read() of a file
\* that holds the bytes b
ReadText(b) == TranslateNewlinesFrom(DecodeFrom(b, 1), 1)

\* file.endswith(suffix)
EndsWith(path, suffix) ==
    /\ Len(path) >= Len(suffix)
    /\ SubSeq(path, Len(path) - Len(suffix) + 1, Len(path)) = suffix

\* ('.c', '.h', '.cpp', '.cc', '.py', '.js', '.jsx')
SCANNED_SUFFIXES ==
    {Text(<<".", "c">>), Text(<<".", "h">>), Text(<<".", "c", "p", "p">>),
     Text(<<".", "c", "c">>), Text(<<".", "p", "y">>), Text(<<".", "j", "s">>),
     Text(<<".", "j", "s", "x">>)}

\* The last place <= n of path that holds character c, 0 when none does
RECURSIVE LastIndexOf(_, _, _)
LastIndexOf(path, c, n) ==
    IF n = 0 THEN 0
    ELSE IF path[n] = c THEN n
    ELSE LastIndexOf(path, c, n - 1)

\* os.path.splitext(filepath)[1]: from the last dot of the last path
\* component on, when a character other than a dot stands before that dot in
\* the component
SplitExt(path) ==
    LET sep == LastIndexOf(path, SLASH, Len(path))
        dot == LastIndexOf(path, DOT, Len(path))
    IN  IF dot > sep /\ \E n \in (sep + 1)..(dot - 1) : path[n] # DOT
        THEN SubSeq(path, dot, Len(path))
        ELSE << >>

\* The keys of EXTRACTOR_MAP, each with the pattern of its extractor
EXTRACTOR_MAP ==
    << [key |-> Text(<<".", "c">>), extractor |-> "C"],
       [key |-> Text(<<".", "h">>), extractor |-> "C"],
       [key |-> Text(<<".", "c", "p", "p">>), extractor |-> "C"],
       [key |-> Text(<<".", "c", "c">>), extractor |-> "C"],
       [key |-> Text(<<".", "p", "y">>), extractor |-> "PY"],
       [key |-> Text(<<".", "j", "s">>), extractor |-> "JS"],
       [key |-> Text(<<".", "j", "s", "x">>), extractor |-> "JS"] >>

\* ext.lower() == key, for a key of EXTRACTOR_MAP.  The keys are made of '.'
\* and the letters c, h, j, p, s, x, y, and the only characters whose lower
\* case holds one of these are the letter itself and its ASCII capital.
LowerIs(ext, key) ==
    /\ Len(ext) = Len(key)
    /\ \A k \in 1..Len(key) :
          ext[k] = key[k] \/ (key[k] # DOT /\ ext[k] = key[k] - 32)

\* EXTRACTOR_MAP.get(ext.lower()): the pattern of the extractor, "none" for
\* None
ExtractorOf(ext) ==
    IF \E n \in 1..Len(EXTRACTOR_MAP) : LowerIs(ext, EXTRACTOR_MAP[n].key)
    THEN EXTRACTOR_MAP[CHOOSE n \in 1..Len(EXTRACTOR_MAP) :
                          LowerIs(ext, EXTRACTOR_MAP[n].key)].extractor
    ELSE "none"

\* score_val >= args.score, args.score a float of the kind above: 0 (the
\* default) or a double that is a whole number of units of 2^-56
MeetsThreshold(score, threshold) == FloatGeq(score, threshold)

\* Lines 134 to 137: whether the literal is passed over without being scored
Skipped(toks) ==
    \/ toks = << >>
    \/ Len(toks) = 1 /\ SINGLE_PERCENT_S_RE_fullmatch(toks[1])

\* The loop of lines 130 to 148 from the n-th literal on
RECURSIVE ResultsFrom(_, _, _, _, _)
ResultsFrom(filepath, lits, n, msg_tokens, threshold) ==
    IF n > Len(lits) THEN << >>
    ELSE LET clean == FMT_SPEC_RE_sub(lits[n].literal)
             toks == tokenize(clean)
             rest == ResultsFrom(filepath, lits, n + 1, msg_tokens, threshold)
         IN  IF Skipped(toks) THEN rest
             ELSE LET val == score_candidate(msg_tokens, SetOf(msg_tokens), toks)
                  IN  IF MeetsThreshold(val, threshold)
                      THEN << [type |-> "string",
                               line |-> lits[n].line,
                               content |-> clean,
                               score |-> val,
                               file |-> filepath] >> \o rest
                      ELSE rest

\* process_file(filepath, message_tokens, message_tokens_set) on a file [path,
\* readable, content], content the bytes it holds, with args.score the
\* threshold
process_file(file, msg_tokens, threshold) ==
    IF ~file.readable THEN << >>
    ELSE LET extractor == ExtractorOf(SplitExt(file.path))
         IN  IF extractor = "none" THEN << >>
             ELSE ResultsFrom(file.path,
                              LiteralsOf(extractor, ReadText(file.content)), 1,
                              msg_tokens, threshold)

\* The walk of lines 249 to 252: the files whose name ends in a scanned suffix
WalkedFiles(dir) ==
    SelectSeq(dir, LAMBDA file : \E suffix \in SCANNED_SUFFIXES :
                                    EndsWith(file.path, suffix))

\* candidates = result: the collection overwritten, not extended
ExtendOverwrites(cands, result) == result

\* candidates.extend(result)
Extend(cands, result) == cands \o result

\* [cand for cand in candidates if cand['score'] >= args.score]
FilterByScore(cands, threshold) ==
    SelectSeq(cands, LAMBDA cand : MeetsThreshold(cand.score, threshold))

\* One candidate put into a list in descending score order, behind the
\* candidates of the same score
RECURSIVE InsertByScore(_, _)
InsertByScore(sorted, cand) ==
    IF sorted = << >> THEN << cand >>
    ELSE IF FloatGeq(Head(sorted).score, cand.score)
         THEN << Head(sorted) >> \o InsertByScore(Tail(sorted), cand)
         ELSE << cand >> \o sorted

\* candidates.sort(key=lambda x: x['score'], reverse=True): a stable sort,
\* candidates of one score stay in the order they had
RECURSIVE SortByScore(_)
SortByScore(cands) ==
    IF cands = << >> THEN << >>
    ELSE InsertByScore(SortByScore(SubSeq(cands, 1, Len(cands) - 1)),
                       cands[Len(cands)])

-----------------------------------------------------------------------------
(* The tokenizer on its own: tokenize(text) for every short text *)

\* ASCII characters of each class, and characters of the Unicode classes:
\* '\x0b' and U+00A0 are whitespace, U+00E9 a letter, U+0665 a digit
TokenizeAlphabet ==
    {SPACE, NEWLINE, VERTICAL_TAB, NO_BREAK_SPACE, Ord("a"), E_ACUTE,
     UNDERSCORE, DOT, Ord("7"), ARABIC_INDIC_FIVE, Ord(":"), PERCENT}

InitTokenize ==
    /\ pc = "tokenize"
    /\ text \in TextsUpTo(TokenizeAlphabet, MaxTextLen)
    /\ tokens = << >>
    /\ NormalizeIdle
    /\ ExtractIdle
    /\ ScoreIdle
    /\ MainIdle

Tokenize ==
    /\ pc = "tokenize"
    /\ tokens' = tokenize(text)
    /\ pc' = "done"
    /\ UNCHANGED << text, normalizeVars, extractVars, scoreVars, mainVars >>

NextTokenize == Tokenize

SpecTokenize == InitTokenize /\ [][NextTokenize]_vars

\* The three token classes of section 4.1
IsSpaceToken(tok) == Len(tok) >= 1 /\ \A i \in 1..Len(tok) : tok[i] \in Whitespace
IsWordToken(tok) == Len(tok) >= 1 /\ \A i \in 1..Len(tok) : tok[i] \in WordDot
IsOtherToken(tok) == Len(tok) = 1 /\ tok[1] \notin (Whitespace \cup WordDot)

\* C8: the concatenation of tokenize(text) is text, every token is a run of
\* whitespace, a run of word/dot characters or one other character, and the
\* runs are maximal (no two neighbours are both whitespace or both word/dot).
C8_TokenizerRoundTrip ==
    pc = "done" =>
        /\ Concat(tokens) = text
        /\ \A i \in 1..Len(tokens) :
              IsSpaceToken(tokens[i]) \/ IsWordToken(tokens[i]) \/ IsOtherToken(tokens[i])
        /\ \A i \in 1..(Len(tokens) - 1) :
              /\ ~(IsSpaceToken(tokens[i]) /\ IsSpaceToken(tokens[i + 1]))
              /\ ~(IsWordToken(tokens[i]) /\ IsWordToken(tokens[i + 1]))

\* A text with a whitespace run, a word run and a punctuation character,
\* tokenized
C8_Witness ==
    /\ pc = "done"
    /\ Len(tokens) = 3
    /\ \E i \in 1..3 : IsSpaceToken(tokens[i]) /\ Len(tokens[i]) = 2
    /\ \E i \in 1..3 : IsWordToken(tokens[i])
    /\ \E i \in 1..3 : IsOtherToken(tokens[i])

-----------------------------------------------------------------------------
(* The stripper on its own: FMT_SPEC_RE.sub('', literal), applied again to  *)
(* its own result                                                          *)

NormalizeAlphabet ==
    {PERCENT, Ord("d"), Ord("s"), Ord("5"), ARABIC_INDIC_FIVE, DOT, Ord("-"),
     Ord("a")}

InitNormalize ==
    /\ pc = "strip"
    /\ literal \in TextsUpTo(NormalizeAlphabet, MaxLiteralLen)
    /\ clean_literal = literal
    /\ passes = 0
    /\ TokenizeIdle
    /\ ExtractIdle
    /\ ScoreIdle
    /\ MainIdle

StripFormat ==
    /\ pc = "strip"
    /\ passes < MaxPasses
    /\ clean_literal' = FMT_SPEC_RE_sub(clean_literal)
    /\ passes' = passes + 1
    /\ UNCHANGED << pc, literal, tokenizeVars, extractVars, scoreVars, mainVars >>

NextNormalize == StripFormat

SpecNormalize == InitNormalize /\ [][NextNormalize]_vars

\* Every '%' of t begins a format directive
EveryPercentBeginsDirective(t) ==
    \A i \in 1..Len(t) : t[i] = PERCENT => FmtMatchEnd(t, i) # i

\* C7 as stated: once the stripper has run, running it again changes nothing.
C7_StripTwiceIsStripOnce ==
    [][passes >= 1 => clean_literal' = clean_literal]_vars

\* C7 amended: for a literal in which every '%' begins a format directive,
\* the stripped text holds no directive, and stripping it again changes
\* nothing.
C7_StripTwiceIsStripOnceWhenEveryPercentBegins ==
    [][(passes >= 1 /\ EveryPercentBeginsDirective(literal)) =>
            /\ ~HasDirective(clean_literal)
            /\ clean_literal' = clean_literal]_vars

\* A literal with text and two directives, each begun by its '%', stripped
\* twice
C7_Witness ==
    /\ passes = 2
    /\ EveryPercentBeginsDirective(literal)
    /\ Len(literal) - Len(clean_literal) >= 4
    /\ Len(clean_literal) = 0

-----------------------------------------------------------------------------
(* The scorer on its own: one message and one literal, stripped, tokenized  *)
(* and scored as lines 243 to 246 and 132 to 138 do                        *)

MSG_ERROR_OPENING_FILE ==
    Text(<<"e", "r", "r", "o", "r", " ", "o", "p", "e", "n", "i", "n", "g", " ",
      "f", "i", "l", "e">>)

LIT_FILE_OPENING_ERROR ==
    Text(<<"f", "i", "l", "e", " ", "o", "p", "e", "n", "i", "n", "g", " ", "e",
      "r", "r", "o", "r">>)

MSG_DISK_FULL ==
    Text(<<"d", "i", "s", "k", " ", "f", "u", "l", "l">>)

LIT_DISK_2_FULL ==
    Text(<<"d", "i", "s", "k", " ", " ", "f", "u", "l", "l">>)

ScoreMessageAlphabet == {Ord("a"), Ord("b"), SPACE}

ScoreCandidateAlphabet == {Ord("a"), Ord("b"), SPACE, Ord("c")}

ScoreMessages ==
    TextsUpTo(ScoreMessageAlphabet, MaxMessageLen)
        \cup {MSG_ERROR_OPENING_FILE, MSG_DISK_FULL}

ScoreLiterals ==
    TextsUpTo(ScoreCandidateAlphabet, MaxCandidateLen)
        \cup {MSG_ERROR_OPENING_FILE, LIT_FILE_OPENING_ERROR,
              MSG_DISK_FULL, LIT_DISK_2_FULL}

InitScore ==
    /\ pc = "score"
    /\ message \in ScoreMessages
    /\ literal \in ScoreLiterals
    /\ clean_literal = << >>
    /\ passes = 0
    /\ message_tokens = << >>
    /\ cand_tokens = << >>
    /\ score_val = << >>
    /\ TokenizeIdle
    /\ ExtractIdle
    /\ MainIdle

\* Lines 243 and 132 to 138: the message is tokenized, the literal stripped
\* and tokenized, and scored unless line 135 or 137 passes it over
ScoreLiteral ==
    /\ pc = "score"
    /\ message_tokens' = tokenize(message)
    /\ clean_literal' = FMT_SPEC_RE_sub(literal)
    /\ cand_tokens' = tokenize(clean_literal')
    /\ passes' = 1
    /\ IF Skipped(cand_tokens')
       THEN /\ pc' = "skipped"
            /\ score_val' = score_val
       ELSE /\ pc' = "done"
            /\ score_val' = score_candidate(message_tokens',
                                            SetOf(message_tokens'), cand_tokens')
    /\ UNCHANGED << message, literal, tokenizeVars, extractVars, mainVars >>

NextScore == ScoreLiteral

SpecScore == InitScore /\ [][NextScore]_vars

\* The candidate tokens that are message tokens, in the candidate's order
SharedTokens == SelectSeq(cand_tokens, LAMBDA tok : tok \in SetOf(message_tokens))

\* Whether sub embeds into seq as a subsequence: some strictly increasing
\* places of seq hold the tokens of sub in order
Embeds(sub, seq) ==
    \E f \in [1..Len(sub) -> 1..Len(seq)] :
        /\ \A k \in 1..Len(sub) : seq[f[k]] = sub[k]
        /\ \A k \in 1..(Len(sub) - 1) : f[k] < f[k + 1]

\* C1: the score is non-zero exactly when the shared tokens are not empty and
\* embed into the message tokens as a subsequence; "file opening error" scores
\* 0 against "error opening file", which scores more than 0 against itself.
C1_ScoreNonZeroIffEmbeds ==
    pc = "done" =>
        /\ score_val # FloatOfInt(0) <=>
              (SharedTokens # << >> /\ Embeds(SharedTokens, message_tokens))
        /\ (message = MSG_ERROR_OPENING_FILE /\ literal = LIT_FILE_OPENING_ERROR)
              => score_val = FloatOfInt(0)
        /\ (message = MSG_ERROR_OPENING_FILE /\ literal = MSG_ERROR_OPENING_FILE)
              => FloatGreater(score_val, FloatOfInt(0))

\* A candidate whose first shared token stands twice in the message, scored
\* above 0: the search took the first place although the second would do too
C1_Witness ==
    /\ pc = "done"
    /\ FloatGreater(score_val, FloatOfInt(0))
    /\ Len(SharedTokens) >= 2
    /\ \E p, r \in 1..Len(message_tokens) :
          /\ p < r
          /\ message_tokens[p] = SharedTokens[1]
          /\ message_tokens[r] = SharedTokens[1]
          /\ Embeds(Tail(SharedTokens), SubSeq(message_tokens, r + 1, Len(message_tokens)))

\* The message and the literal of three spaces
THREE_SPACES == << SPACE, SPACE, SPACE >>

\* The doubles written 8.1, 8.2 and 0.30000000000000004, in units of 2^-56
\* (int(8.1 * 2 ** 56) and so on, in base 2^14)
EIGHT_POINT_ONE == <<6528, 9830, 6553, 1638, 8>>
EIGHT_POINT_TWO == <<13056, 3276, 13107, 3276, 8>>
THREE_TENTHS_AND_AN_ULP == <<3280, 13107, 3276, 4915>>

\* C2 as stated: against "disk full", the literal "disk full" scores 8 and
\* the literal "disk  full" scores 8.2.
C2_DiskFullScores8And82 ==
    (pc = "done" /\ message = MSG_DISK_FULL) =>
        /\ literal = MSG_DISK_FULL => score_val = FloatOfInt(8)
        /\ literal = LIT_DISK_2_FULL => score_val = EIGHT_POINT_TWO

\* C2 amended: against "disk full", the literal "disk full" scores 8.1 (its
\* single space is a message token and adds 0.1) and the literal "disk  full"
\* scores 8.0 (its two-space token is no message token and is filtered out).
\* A score is a sum of doubles and a whole number of tenths only up to
\* rounding: three spaces score 0.30000000000000004 against three spaces.
C2_DiskFullScores81And80 ==
    pc = "done" =>
        /\ (message = MSG_DISK_FULL /\ literal = MSG_DISK_FULL)
              => score_val = EIGHT_POINT_ONE
        /\ (message = MSG_DISK_FULL /\ literal = LIT_DISK_2_FULL)
              => score_val = FloatOfInt(8)
        /\ (message = THREE_SPACES /\ literal = THREE_SPACES)
              => score_val = THREE_TENTHS_AND_AN_ULP

\* "disk  full" scored against "disk full"
C2_Witness ==
    /\ pc = "done"
    /\ message = MSG_DISK_FULL
    /\ literal = LIT_DISK_2_FULL
    /\ cand_tokens = << Text(<<"d", "i", "s", "k">>), << SPACE, SPACE >>,
                        Text(<<"f", "u", "l", "l">>) >>
    /\ score_val = FloatOfInt(8)

-----------------------------------------------------------------------------
(* main(): the walk, the thread pool, the fan-in, the filter and the sort   *)

\* The message of the three tests (test_msgp_format_specifiers.py, line 64)
MSG_MEMORY ==
    Text(<<"M", "e", "m", "o", "r", "y", ":", " ", "2", "0", ".", "8", "G", " ",
      "(", "m", "i", "n", ":", " ", "2", "5", "0", "M", " ", "p", "e", "a",
      "k", ":", " ", "2", "7", "G", " ", "s", "w", "a", "p", ":", " ", "2",
      ".", "7", "G", " ", "s", "w", "a", "p", " ", "p", "e", "a", "k", ":",
      " ", "6", ".", "7", "G", ")">>)

\* "min:  swap peak: ", what the literal of the tests is stripped to
MIN_SWAP_PEAK ==
    Text(<<"m", "i", "n", ":", " ", " ", "s", "w", "a", "p", " ", "p", "e", "a",
      "k", ":", " ">>)

\* The files setUp writes, and their names
FORMAT_TEST_C ==
    Text(<<"\n", "#", "i", "n", "c", "l", "u", "d", "e", " ", "<", "s", "t",
      "d", "i", "o", ".", "h", ">", "\n", "i", "n", "t", " ", "m", "a",
      "i", "n", "(", ")", " ", "{", "\n", " ", " ", " ", " ", "/", "/",
      " ", "T", "h", "e", " ", "s", "t", "r", "i", "n", "g", " ", "l", "i",
      "t", "e", "r", "a", "l", " ", "c", "o", "n", "t", "a", "i", "n", "s",
      " ", "f", "o", "r", "m", "a", "t", " ", "s", "p", "e", "c", "i", "f",
      "i", "e", "r", "s", " ", "l", "i", "k", "e", " ", "%", "s", " ", "a",
      "n", "d", " ", "%", "d", ".", "\n", " ", " ", " ", " ", "p", "r",
      "i", "n", "t", "f", "(", "\"", "m", "i", "n", ":", " ", "%", "s",
      " ", "s", "w", "a", "p", " ", "p", "e", "a", "k", ":", " ", "%", "d",
      "\"", ",", " ", "\"", "i", "g", "n", "o", "r", "e", "d", "\"", ",",
      " ", "1", "0", "0", ")", ";", "\n", " ", " ", " ", " ", "r", "e",
      "t", "u", "r", "n", " ", "0", ";", "\n", "}", "\n">>)

FORMAT_TEST_PY ==
    Text(<<"\n", "d", "e", "f", " ", "s", "h", "o", "w", "(", ")", ":", "\n",
      " ", " ", " ", " ", "#", " ", "U", "s", "i", "n", "g", " ", "t", "h",
      "e", " ", "o", "l", "d", "-", "s", "t", "y", "l", "e", " ", "f", "o",
      "r", "m", "a", "t", "t", "i", "n", "g", " ", "o", "p", "e", "r", "a",
      "t", "o", "r", "\n", " ", " ", " ", " ", "p", "r", "i", "n", "t",
      "(", "\"", "m", "i", "n", ":", " ", "%", "s", " ", "s", "w", "a",
      "p", " ", "p", "e", "a", "k", ":", " ", "%", "f", "\"", " ", "%",
      " ", "(", "\"", "i", "g", "n", "o", "r", "e", "d", "\"", ",", " ",
      "1", "0", "0", ".", "0", ")", ")", "\n", " ", " ", " ", " ", "\n",
      "i", "f", " ", "_", "_", "n", "a", "m", "e", "_", "_", " ", "=", "=",
      " ", "\"", "_", "_", "m", "a", "i", "n", "_", "_", "\"", ":", "\n",
      " ", " ", " ", " ", "s", "h", "o", "w", "(", ")", "\n">>)

FORMAT_TEST_JS ==
    Text(<<"\n", "/", "/", " ", "I", "n", " ", "J", "a", "v", "a", "S", "c",
      "r", "i", "p", "t", ",", " ", "f", "o", "r", "m", "a", "t", " ", "s",
      "p", "e", "c", "i", "f", "i", "e", "r", "s", " ", "a", "r", "e", " ",
      "n", "o", "t", " ", "s", "t", "a", "n", "d", "a", "r", "d", " ", "b",
      "u", "t", " ", "w", "e", " ", "i", "n", "c", "l", "u", "d", "e", " ",
      "o", "n", "e", " ", "f", "o", "r", " ", "t", "e", "s", "t", "i", "n",
      "g", ".", "\n", "c", "o", "n", "s", "o", "l", "e", ".", "l", "o",
      "g", "(", "\"", "m", "i", "n", ":", " ", "%", "s", " ", "s", "w",
      "a", "p", " ", "p", "e", "a", "k", ":", " ", "%", "d", "\"", ")",
      ";", "\n">>)

PATH_FORMAT_TEST_C ==
    Text(<<"f", "o", "r", "m", "a", "t", "_", "t", "e", "s", "t", ".", "c">>)

PATH_FORMAT_TEST_PY ==
    Text(<<"f", "o", "r", "m", "a", "t", "_", "t", "e", "s", "t", ".", "p", "y">>)

PATH_FORMAT_TEST_JS ==
    Text(<<"f", "o", "r", "m", "a", "t", "_", "t", "e", "s", "t", ".", "j", "s">>)

\* A header whose literal holds message tokens out of the message's order,
\* with '\r\n' line ends and, in its comment, the two bytes of U+00E9 and a
\* byte that is no UTF-8; and a file main() does not scan
ORDER_H ==
    Text(<<"/", "*", " ", "c", "a", "f">>) \o <<195, 169, 32, 255>>
        \o Text(<<" ", "*", "/", "\r", "\n", "p", "u", "t", "s", "(", "\"",
                  "p", "e", "a", "k", ":", " ", "m", "i", "n", "\"", ")", ";",
                  "\r", "\n">>)

PATH_ORDER_H ==
    Text(<<"o", "r", "d", "e", "r", ".", "h">>)

PATH_NOTES_TXT ==
    Text(<<"n", "o", "t", "e", "s", ".", "t", "x", "t">>)

\* The files a directory is made of
FilePool ==
    {[path |-> PATH_FORMAT_TEST_C, readable |-> TRUE, content |-> FORMAT_TEST_C],
     [path |-> PATH_FORMAT_TEST_PY, readable |-> TRUE, content |-> FORMAT_TEST_PY],
     [path |-> PATH_FORMAT_TEST_JS, readable |-> TRUE, content |-> FORMAT_TEST_JS],
     [path |-> PATH_ORDER_H, readable |-> TRUE, content |-> ORDER_H],
     [path |-> PATH_NOTES_TXT, readable |-> TRUE, content |-> FORMAT_TEST_C]}

\* The directories of up to MaxFiles files, no file twice, in every order
Directories ==
    {d \in UNION {[1..n -> FilePool] : n \in 1..MaxFiles} :
        \A i, j \in 1..Len(d) : i # j => d[i] # d[j]}

\* --score 1 of the tests, and the default
ScoreOne == FloatOfInt(1)
ScoreDefault == FloatOfInt(0)

InitMain ==
    /\ pc = "start"
    /\ message = MSG_MEMORY
    /\ args_score \in {ScoreDefault, ScoreOne}
    /\ args_sort \in BOOLEAN
    /\ directory \in Directories
    /\ max_workers \in 1..MaxWorkers
    /\ message_tokens = << >>
    /\ cand_tokens = << >>
    /\ score_val = << >>
    /\ file_paths = << >>
    /\ futures = << >>
    /\ candidates = << >>
    /\ TokenizeIdle
    /\ NormalizeIdle
    /\ ExtractIdle

\* Lines 243 to 257: the message is tokenized, the directory walked and the
\* pool created; no future exists yet
MainWalk ==
    /\ pc = "start"
    /\ message_tokens' = tokenize(message)
    /\ file_paths' = WalkedFiles(directory)
    /\ futures' = << >>
    /\ pc' = "submit"
    /\ UNCHANGED << message, cand_tokens, score_val, args_score, args_sort,
                    directory, max_workers, candidates,
                    tokenizeVars, normalizeVars, extractVars >>

\* Line 258, once per path: executor.submit queues process_file for the next
\* path and returns its future; the workers run while the rest is submitted
MainSubmit ==
    /\ pc = "submit"
    /\ Len(futures) < Len(file_paths)
    /\ futures' = Append(futures, [state |-> "pending", result |-> << >>])
    /\ UNCHANGED << pc, scoreVars, args_score, args_sort, directory, max_workers,
                    file_paths, candidates,
                    tokenizeVars, normalizeVars, extractVars >>

\* Line 259: every path is submitted, and the main thread calls as_completed
MainAsCompleted ==
    /\ pc = "submit"
    /\ Len(futures) = Len(file_paths)
    /\ pc' = "collect"
    /\ UNCHANGED << scoreVars, mainVars, tokenizeVars, normalizeVars, extractVars >>

\* The pool works from the first submit until the with block is left
PoolOpen == pc \in {"submit", "collect"}

Running == {n \in 1..Len(futures) : futures[n].state = "running"}

\* A free worker thread takes the oldest work item of the pool's queue
WorkerStart(n) ==
    /\ PoolOpen
    /\ futures[n].state = "pending"
    /\ \A m \in 1..(n - 1) : futures[m].state # "pending"
    /\ Cardinality(Running) < max_workers
    /\ futures' = [futures EXCEPT ![n].state = "running"]
    /\ UNCHANGED << pc, scoreVars, args_score, args_sort, directory, max_workers,
                    file_paths, candidates,
                    tokenizeVars, normalizeVars, extractVars >>

\* process_file returns, and its future is done
WorkerFinish(n) ==
    /\ PoolOpen
    /\ futures[n].state = "running"
    /\ futures' = [futures EXCEPT
                     ![n] = [state |-> "finished",
                             result |-> process_file(file_paths[n], message_tokens,
                                                     args_score)]]
    /\ UNCHANGED << pc, scoreVars, args_score, args_sort, directory, max_workers,
                    file_paths, candidates,
                    tokenizeVars, normalizeVars, extractVars >>

\* Lines 259 to 262: as_completed yields a done future, and the main thread
\* extends the candidates by its result
MainCollect(n) ==
    /\ pc = "collect"
    /\ futures[n].state = "finished"
    /\ candidates' = IF futures[n].result # << >>
                     THEN Extend(candidates, futures[n].result)
                     ELSE candidates
    /\ futures' = [futures EXCEPT ![n].state = "collected"]
    /\ UNCHANGED << pc, scoreVars, args_score, args_sort, directory, max_workers,
                    file_paths, tokenizeVars, normalizeVars, extractVars >>

\* Lines 264 to 266, once as_completed is exhausted: the filter and the sort
MainFinish ==
    /\ pc = "collect"
    /\ \A n \in 1..Len(futures) : futures[n].state = "collected"
    /\ candidates' = LET kept == FilterByScore(candidates, args_score)
                     IN  IF args_sort THEN SortByScore(kept) ELSE kept
    /\ pc' = "done"
    /\ UNCHANGED << scoreVars, args_score, args_sort, directory, max_workers,
                    file_paths, futures, tokenizeVars, normalizeVars, extractVars >>

NextMain ==
    \/ MainWalk
    \/ MainSubmit
    \/ MainAsCompleted
    \/ \E n \in 1..Len(futures) : WorkerStart(n)
    \/ \E n \in 1..Len(futures) : WorkerFinish(n)
    \/ \E n \in 1..Len(futures) : MainCollect(n)
    \/ MainFinish

SpecMain == InitMain /\ [][NextMain]_vars

\* The candidates of one file, in the order main() holds them
CandidatesOf(path) == SelectSeq(candidates, LAMBDA cand : cand.file = path)

\* The line of the literal "min: %s swap peak: ..." in each file of the tests
TestLine(path) ==
    CASE path = PATH_FORMAT_TEST_C -> 5
      [] path = PATH_FORMAT_TEST_PY -> 4
      [] path = PATH_FORMAT_TEST_JS -> 3

TestPaths == {PATH_FORMAT_TEST_C, PATH_FORMAT_TEST_PY, PATH_FORMAT_TEST_JS}

\* C3: with the message of the tests and --score 1, each scanned file of the
\* tests yields exactly one candidate: at the line of its literal, with the
\* content "min:  swap peak: " and a score of at least 1; "ignored" and
\* "__main__" are not reported.
C3_EndToEndOneCandidatePerFile ==
    (pc = "done" /\ message = MSG_MEMORY /\ args_score = ScoreOne) =>
        \A n \in 1..Len(file_paths) :
            file_paths[n].path \in TestPaths =>
                LET cs == CandidatesOf(file_paths[n].path)
                IN  /\ Len(cs) = 1
                    /\ cs[1].type = "string"
                    /\ cs[1].line = TestLine(file_paths[n].path)
                    /\ cs[1].content = MIN_SWAP_PEAK
                    /\ FloatGeq(cs[1].score, ScoreOne)

\* Two files of the tests scanned with --score 1, one candidate each
C3_Witness ==
    /\ pc = "done"
    /\ args_score = ScoreOne
    /\ Len(file_paths) = 2
    /\ \A n \in 1..2 : file_paths[n].path \in TestPaths
    /\ Len(candidates) = 2
    /\ \A n \in 1..2 : candidates[n].content = MIN_SWAP_PEAK

\* C4: with the threshold left at its default, no candidate of the final
\* sequence has the score 0.
C4_NoZeroScoreUnderDefault ==
    (pc = "done" /\ args_score = ScoreDefault) =>
        \A n \in 1..Len(candidates) : candidates[n].score # FloatOfInt(0)

\* How often each element stands in a sequence
BagOfSeq(seq) ==
    [x \in SetOf(seq) |-> Cardinality({n \in 1..Len(seq) : seq[n] = x})]

\* What one thread collects that processes the files one after the other
SequentialCandidates ==
    FilterByScore(
        Concat([n \in 1..Len(file_paths) |->
                    process_file(file_paths[n], message_tokens, args_score)]),
        args_score)

\* The results of the futures main() has taken from as_completed so far
CollectedResults ==
    Concat([n \in 1..Len(futures) |->
                IF futures[n].state = "collected" THEN futures[n].result ELSE << >>])

\* C5: whatever the number of workers and the order the futures complete and
\* are collected in, main() holds every candidate of every collected future
\* exactly once, and ends with the candidates one thread would collect, as a
\* multiset.
C5_FanInKeepsEveryCandidate ==
    /\ PoolOpen => BagOfSeq(candidates) = BagOfSeq(CollectedResults)
    /\ pc = "done" => BagOfSeq(candidates) = BagOfSeq(SequentialCandidates)

\* Two workers, and the second file's candidates collected before the first's
C5_Witness ==
    /\ pc = "done"
    /\ max_workers = 2
    /\ ~args_sort
    /\ Len(file_paths) = 2
    /\ Len(candidates) >= 3
    /\ candidates[1].file = file_paths[2].path
    /\ candidates[Len(candidates)].file = file_paths[1].path

\* The place of a file in the order the walk found the files in
DiscoveryIndex(path) == CHOOSE n \in 1..Len(file_paths) : file_paths[n].path = path

\* C6: with --sort the final sequence is in descending score order, and
\* candidates of equal score stand in the order their files were discovered
\* (stated of the candidates that scored above 0, which every threshold
\* lets through).
C6_SortedTiesInDiscoveryOrder ==
    (pc = "done" /\ args_sort) =>
        \A i, j \in 1..Len(candidates) :
            (i < j /\ FloatGreater(candidates[j].score, FloatOfInt(0))) =>
                \/ FloatGreater(candidates[i].score, candidates[j].score)
                \/ /\ candidates[i].score = candidates[j].score
                   /\ DiscoveryIndex(candidates[i].file)
                        <= DiscoveryIndex(candidates[j].file)

-----------------------------------------------------------------------------
(* The Python extractor on its own: one prefixed, quoted literal per content *)

\* The prefixes of PY_STRING_LITERAL_RE, and some of their spellings in
\* capitals
PyPrefixes ==
    {<< >>, Text(<<"r">>), Text(<<"u">>), Text(<<"u", "r">>),
     Text(<<"r", "u">>), Text(<<"f">>), Text(<<"f", "r">>),
     Text(<<"r", "f">>), Text(<<"R">>), Text(<<"F">>), Text(<<"R", "f">>),
     Text(<<"f", "R">>), Text(<<"U", "R">>)}

Quotes == {DOUBLE_QUOTE, SINGLE_QUOTE}

BodyAlphabet == {Ord("a"), LEFT_BRACE, RIGHT_BRACE}

InitExtractPy ==
    /\ pc = "extract"
    /\ \E p \in PyPrefixes, q \in Quotes,
          body \in TextsUpTo(BodyAlphabet, MaxBodyLen) :
            content = p \o << q >> \o body \o << q >>
    /\ literals = << >>
    /\ TokenizeIdle
    /\ NormalizeIdle
    /\ ScoreIdle
    /\ MainIdle

ExtractPy ==
    /\ pc = "extract"
    /\ literals' = extract_py_string_literals(content)
    /\ pc' = "done"
    /\ UNCHANGED << content, tokenizeVars, normalizeVars, scoreVars, mainVars >>

NextExtractPy == ExtractPy

SpecExtractPy == InitExtractPy /\ [][NextExtractPy]_vars

\* The place of the opening quote of a content that is one literal
RECURSIVE OpeningQuote(_, _)
OpeningQuote(t, i) ==
    IF i > Len(t) \/ t[i] \in Quotes THEN i ELSE OpeningQuote(t, i + 1)

\* The prefix letters and the body between the quotes of such a content
PrefixOf(t) == SubSeq(t, 1, OpeningQuote(t, 1) - 1)
BodyOf(t) == SubSeq(t, OpeningQuote(t, 1) + 1, Len(t) - 1)

\* Whether the prefix marks a formatted string
IsFormatted(t) ==
    \E k \in 1..Len(PrefixOf(t)) : MatchesIgnoreCase(PrefixOf(t)[k], Ord("f"))

\* The spans of t between an outermost '{' and its '}' replaced by one space
\* each, depth the number of braces open at i
RECURSIVE ReplaceOutermost(_, _, _)
ReplaceOutermost(t, i, depth) ==
    IF i > Len(t) THEN << >>
    ELSE IF t[i] = LEFT_BRACE
         THEN (IF depth = 0 THEN << SPACE >> ELSE << >>)
                \o ReplaceOutermost(t, i + 1, depth + 1)
    ELSE IF t[i] = RIGHT_BRACE /\ depth > 0
         THEN ReplaceOutermost(t, i + 1, depth - 1)
    ELSE (IF depth = 0 THEN << t[i] >> ELSE << >>)
           \o ReplaceOutermost(t, i + 1, depth)

\* Whether the braces of t pair up
RECURSIVE Balanced(_, _, _)
Balanced(t, i, depth) ==
    IF i > Len(t) THEN depth = 0
    ELSE IF t[i] = LEFT_BRACE THEN Balanced(t, i + 1, depth + 1)
    ELSE IF t[i] = RIGHT_BRACE THEN depth > 0 /\ Balanced(t, i + 1, depth - 1)
    ELSE Balanced(t, i + 1, depth)

\* C9: the literal emitted for a prefixed, quoted Python literal is the body
\* between its quotes (for a formatted string: that body with its brace spans
\* replaced), with no quote and no prefix letter left on it.
C9_PyLiteralIsBody ==
    pc = "done" =>
        /\ Len(literals) = 1
        /\ literals[1].literal =
              IF IsFormatted(content)
              THEN JoinSpace(SplitBracesFrom(BodyOf(content), 1, << >>))
              ELSE BodyOf(content)

\* Whether t holds a doubled brace, the escape for a brace in a formatted
\* string
HasDoubledBrace(t) ==
    \E i \in 1..(Len(t) - 1) :
        t[i] \in {LEFT_BRACE, RIGHT_BRACE} /\ t[i + 1] = t[i]

\* C10: for a formatted literal whose braces pair up (and are not doubled),
\* what is emitted is the text around the brace spans with one space for each
\* outermost span, nested braces included.
C10_OutermostSpansReplaced ==
    (/\ pc = "done"
     /\ IsFormatted(content)
     /\ Balanced(BodyOf(content), 1, 0)
     /\ ~HasDoubledBrace(BodyOf(content))) =>
        /\ Len(literals) = 1
        /\ LET raw == STRING_PREFIX_RE_sub(content)
               unquoted == IF IsQuoted(raw) THEN StripEnds(raw) ELSE raw
           IN  literals[1].literal = ReplaceOutermost(unquoted, 1, 0)

=============================================================================
